---- MODULE Spec2Model ----
(***************************************************************************)
(* A state-machine model of ludwig/models/llm.py: the LLM wrapper around a *)
(* pretrained causal language model, optionally wrapped with a PEFT        *)
(* adapter.  The constructor is modelled step by step (pc), followed by    *)
(* the public operations forward, update_metrics, eval_loss, save, load.   *)
(* Tensors are modelled by their sequence dimension (batch size 1): an     *)
(* input-id or target tensor is a sequence of token ids.                   *)
(***************************************************************************)
EXTENDS Integers, Sequences, FiniteSets, TLC

VARIABLES
    pc,                 \* position in __init__: "start" .. "ready", or "failed"
    config_obj,         \* the LLMModelConfig handed to __init__
    adapter,            \* self.adapter
    model,              \* self.model
    context_len,        \* self.context_len
    max_new_tokens,     \* self.max_new_tokens
    max_input_length,   \* self.max_input_length
    input_features,     \* self.input_features.keys()
    output_features,    \* self.output_features.items(), as (name, type) records
    eval_loss_metric,   \* self.eval_loss_metric (MeanMetric: total, weight)
    eval_additional_losses_metrics,  \* self.eval_additional_losses_metrics
    disk,               \* the file system: path -> saved adapter or NoFile
    call                \* the last public call: arguments, collaborator calls, result

vars == <<pc, config_obj, adapter, model, context_len, max_new_tokens,
          max_input_length, input_features, output_features, eval_loss_metric,
          eval_additional_losses_metrics, disk, call>>

fields == <<adapter, context_len, max_new_tokens, max_input_length,
            input_features, output_features, eval_loss_metric,
            eval_additional_losses_metrics>>

----------------------------------------------------------------------------
(* Bounds of the model *)

MaxLen == 2          \* longest token sequence (inputs, targets, predictions)
MaxUpdates == 1      \* most update_metrics calls that reach the accumulators
MaxOutputs == 2      \* most output feature configs handed to the constructor
LongInput == 9       \* an input longer than the small context lengths allow

(* Program constants *)

SafetyMargin == 8          \* llm.py:79
DefaultContextLen == 2048  \* llm.py:62

None == "None"

MODEL_WEIGHTS_FILE_NAME == "model_weights"
LOGITS == "logits"

----------------------------------------------------------------------------
(* The values the configuration is drawn from *)

\* model.config of the pretrained backbone: a record holding the attributes the
\* configuration has (hasattr is membership in its DOMAIN)
BackboneConfigs ==
    { [max_sequence_length |-> 9],
      [max_position_embeddings |-> 10],
      [max_sequence_length |-> 11, max_position_embeddings |-> 9],
      [vocab_size |-> 4] }

NewTokenChoices == {1, 2}

\* config_obj.adapter: None or a dict with a "type" entry.  A dict is a record
\* of its key set and its values; None has no keys.
NoAdapter == [keys |-> {}, type |-> "", peft_type |-> "",
              tokenizer_name_or_path |-> ""]

AdapterConfigs ==
    { NoAdapter, [NoAdapter EXCEPT !.keys = {"type"}, !.type = "prompt_tuning"] }

FeatureTypes == {"text", "category"}

InputName == "prompt"
InputKeyLists == { <<"prompt">>, <<"other">>, <<"prompt", "other">> }

\* sequence lengths of the input batches handed to forward
InputLens == (0..MaxLen) \cup {LongInput}

OutNames == <<"out1", "out2", "out3", "out4">>
OutName(i) == OutNames[i]

OutputConfigs(n, t) ==
    [i \in 1..n |-> [name |-> OutName(i), type |-> t, loss_weight |-> 1]]

InitWeights == {1, 2}

Paths == {"p1", "p2"}
\* what one batch gives: the feature's eval loss and the sum of self.losses()
BatchLosses == { <<1, 0>>, <<2, 1>> }

\* token sequences: distinct non-zero tokens, so order and padding are visible
Tokens(n) == [i \in 1..n |-> i]

NoFile == [present |-> FALSE, base_model_name_or_path |-> None, weights |-> 0]

NoModel == [loaded |-> FALSE, name |-> None, torch_dtype |-> None,
            device_map |-> None, peft |-> FALSE, weights |-> 0]

NoMetric == [total |-> 0, weight |-> 0]

\* The record of one public call.  backbone, decoder and feature list the calls
\* made to the collaborators; targets_before / targets_after are the caller's
\* target mapping when the call starts and when it ends.
NoCall == [op |-> "none", raised |-> None, backbone |-> <<>>, decoder |-> <<>>,
           feature |-> <<>>, keys |-> <<>>, path |-> None,
           inputs |-> <<>>, ids |-> <<>>,
           targets_before |-> <<>>, targets_after |-> <<>>,
           predictions |-> 0, model_before |-> NoModel, loss |-> <<>>]

----------------------------------------------------------------------------
(* Python truthiness of self.adapter / config_obj.adapter *)
Truthy(a) == a.keys /= {}

hasattr(o, name) == name \in DOMAIN o

ToUpper(s) == IF s = "prompt_tuning" THEN "PROMPT_TUNING" ELSE s

(* llm.py:57-62: the context length from the backbone's metadata *)
ContextLen(bc) ==
    IF hasattr(bc, "max_sequence_length") THEN bc.max_sequence_length
    ELSE IF hasattr(bc, "max_position_embeddings") THEN bc.max_position_embeddings
    ELSE DefaultContextLen

(* llm.py:275, 281: os.path.join(save_path, MODEL_WEIGHTS_FILE_NAME) *)
WeightsPath(save_path) == [dir |-> save_path, file |-> MODEL_WEIGHTS_FILE_NAME]

(* llm.py:79 *)
MaxInputLength(ctx, mnt) == ctx - mnt - SafetyMargin

----------------------------------------------------------------------------
Init ==
    /\ pc = "start"
    /\ \E bc \in BackboneConfigs, mnt \in NewTokenChoices, a \in AdapterConfigs,
          n \in 1..MaxOutputs, t \in FeatureTypes, w \in InitWeights :
         config_obj = [model_name |-> "llm", backbone |-> bc, adapter |-> a,
                       max_new_tokens |-> mnt, init_weights |-> w,
                       input_features |-> <<InputName>>,
                       output_features |-> OutputConfigs(n, t)]
    /\ adapter = NoAdapter
    /\ model = NoModel
    /\ context_len = 0
    /\ max_new_tokens = 0
    /\ max_input_length = 0
    /\ input_features = <<>>
    /\ output_features = <<>>
    /\ eval_loss_metric = NoMetric
    /\ eval_additional_losses_metrics = NoMetric
    /\ disk = [f \in {WeightsPath(p) : p \in Paths} |-> NoFile]
    /\ call = NoCall

(* llm.py:39-63: copy the adapter config, load the backbone in half
   precision with automatic device placement, read its context length *)
LoadBackbone ==
    /\ pc = "start"
    /\ adapter' = config_obj.adapter
    /\ model' = [loaded |-> TRUE, name |-> config_obj.model_name,
                 torch_dtype |-> "float16", device_map |-> "auto",
                 peft |-> FALSE, weights |-> 0]
    /\ context_len' = ContextLen(config_obj.backbone)
    /\ pc' = "loaded"
    /\ UNCHANGED <<config_obj, max_new_tokens, max_input_length, input_features,
                   output_features, eval_loss_metric,
                   eval_additional_losses_metrics, disk, call>>

(* llm.py:67-74: wrap the backbone with a PEFT model when an adapter config
   is given; the "type" entry becomes "peft_type", upper-cased *)
WrapAdapter ==
    /\ pc = "loaded"
    /\ IF Truthy(config_obj.adapter)
       THEN /\ adapter' = [keys |-> (adapter.keys \ {"type"})
                                      \cup {"peft_type", "tokenizer_name_or_path"},
                           type |-> "",
                           peft_type |-> ToUpper(adapter.type),
                           tokenizer_name_or_path |-> config_obj.model_name]
            /\ model' = [model EXCEPT !.peft = TRUE,
                                      !.weights = config_obj.init_weights]
       ELSE UNCHANGED <<adapter, model>>
    /\ pc' = "wrapped"
    /\ UNCHANGED <<config_obj, context_len, max_new_tokens, max_input_length,
                   input_features, output_features, eval_loss_metric,
                   eval_additional_losses_metrics, disk, call>>

(* llm.py:77-79 *)
InitGeneration ==
    /\ pc = "wrapped"
    /\ max_new_tokens' = config_obj.max_new_tokens
    /\ max_input_length' = MaxInputLength(context_len, config_obj.max_new_tokens)
    /\ pc' = "generation"
    /\ UNCHANGED <<config_obj, adapter, model, context_len, input_features,
                   output_features, eval_loss_metric,
                   eval_additional_losses_metrics, disk, call>>

(* llm.py:82-87 *)
BuildInputs ==
    /\ pc = "generation"
    /\ input_features' = config_obj.input_features
    /\ pc' = "inputs"
    /\ UNCHANGED <<config_obj, adapter, model, context_len, max_new_tokens,
                   max_input_length, output_features, eval_loss_metric,
                   eval_additional_losses_metrics, disk, call>>

(* llm.py:110-126: only a single output feature is supported *)
build_outputs(output_feature_configs) ==
    IF Len(output_feature_configs) > 1
    THEN [raised |-> "ValueError", features |-> <<>>]
    ELSE [raised |-> None, features |-> <<output_feature_configs[1]>>]

(* llm.py:90-108: build the output feature, or fail the construction; then
   create the two running-mean loss metrics *)
BuildOutputs ==
    /\ pc = "inputs"
    /\ LET r == build_outputs(config_obj.output_features) IN
       IF r.raised /= None
       THEN /\ pc' = "failed"
            /\ UNCHANGED <<output_features, eval_loss_metric,
                           eval_additional_losses_metrics>>
       ELSE /\ pc' = "ready"
            /\ output_features' = r.features
            /\ eval_loss_metric' = NoMetric
            /\ eval_additional_losses_metrics' = NoMetric
    /\ UNCHANGED <<config_obj, adapter, model, context_len, max_new_tokens,
                   max_input_length, input_features, disk, call>>

----------------------------------------------------------------------------
(* forward *)

(* Python's s[start:] on a sequence: a negative start counts from the end,
   and both are clamped to the sequence *)
PySliceFrom(s, start) ==
    LET n == Len(s)
        b == IF start < 0 THEN (IF n + start < 0 THEN 0 ELSE n + start)
             ELSE (IF start > n THEN n ELSE start)
    IN  SubSeq(s, b + 1, n)

(* llm.py:171: input_ids[:, -self.max_input_length :] *)
Truncate(input_ids, mil) == PySliceFrom(input_ids, 0 - mil)

(* llm.py:160-164: arrays in the caller's target mapping are replaced, in
   place, by tensors; tensors are stored back unchanged *)
ConvertTargets(targets) ==
    [i \in DOMAIN targets |->
        IF targets[i].kind /= "tensor"
        THEN [targets[i] EXCEPT !.kind = "tensor"]
        ELSE targets[i]]

(* llm.py:21, 187: the key "{feature name}::{tensor name}" *)
CompositeKey(feature_name, tensor_name) ==
    [feature |-> feature_name, tensor |-> tensor_name]

(* llm.py:207-212: the key is the output feature's name alone *)
ExtractKey(feature_name) == [feature |-> feature_name, tensor |-> None]

\* the branch of llm.py:177 taken the wrong way round
AdapterPathInverted == ~Truthy(adapter)

(* llm.py:177: which path a forward call takes *)
AdapterPath == Truthy(adapter)

(* llm.py:177-205: the collaborator calls and the returned keys of a forward
   call whose truncated input is input_ids *)
ForwardPath(input_ids) ==
    IF AdapterPath
    THEN [backbone |-> << [fn |-> "forward", ids |-> input_ids, model |-> model] >>,
          decoder |-> << "logits" >>,
          keys |-> << CompositeKey(config_obj.output_features[1].name, LOGITS) >>]
    ELSE [backbone |-> << [fn |-> "generate", ids |-> input_ids, model |-> model] >>,
          decoder |-> << "generation" >>,
          keys |-> << ExtractKey(config_obj.output_features[1].name) >>]

\* the caller's target mapping handed to forward: one target of the given kind
TargetMapping(kind, device, n) ==
    << [name |-> config_obj.output_features[1].name, kind |-> kind,
        device |-> device, data |-> Tokens(n)] >>

(* llm.py:137-205 *)
Forward ==
    /\ pc = "ready"
    /\ \E keys \in InputKeyLists, n \in InputLens,
          tk \in {"absent", "ndarray", "tensor"} :
         LET is_tuple == tk /= "absent"
             targets == IF is_tuple THEN TargetMapping(tk, "cpu", 1) ELSE <<>>
             converted == IF is_tuple THEN ConvertTargets(targets) ELSE targets
             input_ids == Truncate(Tokens(n), max_input_length)
             base == [NoCall EXCEPT !.op = "forward", !.inputs = keys,
                                    !.ids = Tokens(n),
                                    !.targets_before = targets,
                                    !.targets_after = converted,
                                    !.model_before = model]
         IN  IF keys /= input_features
             THEN call' = [base EXCEPT !.raised = "AssertionError"]
             ELSE LET r == ForwardPath(input_ids) IN
                  call' = [base EXCEPT !.backbone = r.backbone,
                                       !.decoder = r.decoder,
                                       !.keys = r.keys]
    /\ UNCHANGED <<pc, config_obj, model, disk, fields>>

----------------------------------------------------------------------------
(* update_metrics and eval_loss *)

Zeros(n) == [i \in 1..n |-> 0]

\* padding on the left instead of the right: (d, 0) for (0, d)
PadLeft(t, d) ==
    IF d >= 0 THEN Zeros(d) \o t ELSE SubSeq(t, 1 - d, Len(t))

(* torch.nn.functional.pad(t, (0, d), "constant", 0) on the last dimension:
   d zeros are appended; a negative d narrows the tensor by -d elements *)
Pad(t, d) ==
    IF d >= 0 THEN t \o Zeros(d) ELSE SubSeq(t, 1, Len(t) + d)

(* llm.py:295-315: a deep copy of the target mapping whose entry for the
   output feature is padded to the predictions' sequence length *)
_realign_target_tensor(targets, predictions, i) ==
    [targets EXCEPT ![i].data = Pad(targets[i].data,
                                    predictions - Len(targets[i].data))]

(* torchmetrics.MeanMetric.update *)
MetricUpdate(m, value) == [total |-> m.total + value, weight |-> m.weight + 1]

(* llm.py:216-222: the calls update_metrics makes to the output features *)
FeatureUpdates(targets, predictions) ==
    [i \in DOMAIN output_features |->
        IF output_features[i].type = "text"
        THEN [fn |-> "update_metrics",
              target |-> _realign_target_tensor(targets, predictions, i)[i].data]
        ELSE [fn |-> "update_metrics", target |-> targets[i].data]]

(* llm.py:241-251: the calls eval_loss makes to the output features *)
FeatureLosses(targets, predictions) ==
    [i \in DOMAIN output_features |->
        IF output_features[i].type = "text"
        THEN [fn |-> "eval_loss",
              target |-> _realign_target_tensor(targets, predictions, i)[i].data]
        ELSE [fn |-> "eval_loss", target |-> targets[i].data]]

(* llm.py:246-249: for a feature that is not a text feature the caller's
   target is moved to host memory, in the caller's mapping *)
TargetsAfterEvalLoss(targets) ==
    [i \in DOMAIN targets |->
        IF output_features[i].type = "text" THEN targets[i]
        ELSE [targets[i] EXCEPT !.device = "cpu"]]

(* llm.py:240-258: the pair eval_loss returns; of_loss is what the feature's
   own eval_loss gives, additional what self.losses() sums to *)
EvalLossValue(of_loss, additional) ==
    << output_features[1].loss_weight * of_loss, additional >>

\* the running losses updated whether or not an adapter is attached
UpdatesLossAlways == TRUE

(* llm.py:225: the running losses are updated during fine-tuning only *)
UpdatesLoss == Truthy(adapter)

(* llm.py:214-228.  targets holds a tensor of t tokens on the accelerator;
   predictions[of_name]["predictions"] has sequence length p, at least 1, so
   the padded target is never empty *)
UpdateMetrics ==
    /\ pc = "ready"
    /\ eval_loss_metric.weight < MaxUpdates
    /\ \E t \in 0..MaxLen, p \in 1..MaxLen, batch \in BatchLosses :
         LET targets == TargetMapping("tensor", "cuda", t)
             base == [NoCall EXCEPT !.op = "update_metrics",
                                    !.targets_before = targets,
                                    !.predictions = p,
                                    !.model_before = model]
         IN  IF UpdatesLoss
             THEN LET loss == EvalLossValue(batch[1], batch[2]) IN
                  /\ call' = [base EXCEPT
                                !.feature = FeatureUpdates(targets, p)
                                            \o FeatureLosses(targets, p),
                                !.targets_after = TargetsAfterEvalLoss(targets),
                                !.loss = loss]
                  /\ eval_loss_metric' = MetricUpdate(eval_loss_metric, loss[1])
                  /\ eval_additional_losses_metrics' =
                         MetricUpdate(eval_additional_losses_metrics, loss[2])
             ELSE /\ call' = [base EXCEPT
                                !.feature = FeatureUpdates(targets, p),
                                !.targets_after = targets]
                  /\ UNCHANGED <<eval_loss_metric, eval_additional_losses_metrics>>
    /\ UNCHANGED <<pc, config_obj, model, disk, adapter, context_len,
                   max_new_tokens, max_input_length, input_features,
                   output_features>>

(* llm.py:230-258 *)
EvalLoss ==
    /\ pc = "ready"
    /\ \E t \in 0..MaxLen, p \in 1..MaxLen, batch \in BatchLosses :
         LET targets == TargetMapping("tensor", "cuda", t) IN
         call' = [NoCall EXCEPT !.op = "eval_loss",
                                !.targets_before = targets,
                                !.predictions = p,
                                !.model_before = model,
                                !.feature = FeatureLosses(targets, p),
                                !.targets_after = TargetsAfterEvalLoss(targets),
                                !.loss = EvalLossValue(batch[1], batch[2])]
    /\ UNCHANGED <<pc, config_obj, model, disk, fields>>

----------------------------------------------------------------------------
(* save and load *)

(* PeftModel.save_pretrained: the adapter's weights and its configuration,
   which records the base model's identifier *)
SavedAdapter(m) ==
    [present |-> TRUE, base_model_name_or_path |-> m.name, weights |-> m.weights]

\* save and load acting whether or not an adapter is attached
PersistsAlways == TRUE

(* llm.py:274, 280: save and load act only when an adapter is attached *)
Persists == Truthy(adapter)

(* llm.py:272-276 *)
Save ==
    /\ pc = "ready"
    /\ \E save_path \in Paths :
         /\ call' = [NoCall EXCEPT !.op = "save", !.path = save_path,
                                   !.model_before = model]
         /\ IF Persists
            THEN disk' = [disk EXCEPT ![WeightsPath(save_path)] = SavedAdapter(model)]
            ELSE UNCHANGED disk
    /\ UNCHANGED <<pc, config_obj, model, fields>>

(* llm.py:284-285: a fresh backbone from the recorded identifier, loaded with
   the library's defaults, wrapped with the saved adapter *)
LoadedModel(saved) ==
    [loaded |-> TRUE, name |-> saved.base_model_name_or_path,
     torch_dtype |-> "float32", device_map |-> None,
     peft |-> TRUE, weights |-> saved.weights]

(* llm.py:278-285; PeftConfig.from_pretrained raises when nothing was saved
   under the path, before self.model is assigned *)
Load ==
    /\ pc = "ready"
    /\ \E save_path \in Paths :
         LET base == [NoCall EXCEPT !.op = "load", !.path = save_path,
                                    !.model_before = model]
             saved == disk[WeightsPath(save_path)]
         IN  IF ~Persists
             THEN call' = base /\ UNCHANGED model
             ELSE IF ~saved.present
             THEN call' = [base EXCEPT !.raised = "ValueError"] /\ UNCHANGED model
             ELSE call' = base /\ model' = LoadedModel(saved)
    /\ UNCHANGED <<pc, config_obj, disk, fields>>

Next ==
    \/ LoadBackbone
    \/ WrapAdapter
    \/ InitGeneration
    \/ BuildInputs
    \/ BuildOutputs
    \/ Forward
    \/ UpdateMetrics
    \/ EvalLoss
    \/ Save
    \/ Load

Spec == Init /\ [][Next]_vars

----------------------------------------------------------------------------
(* Properties *)

PassedIds == call.backbone[1].ids

ForwardDone == call.op = "forward" /\ call.raised = None

TextFeature == output_features[1].type = "text"

MetricCall == call.op \in {"update_metrics", "eval_loss"}

\* C1: in forward, an input longer than max_input_length reaches the backbone
\* as exactly its last max_input_length tokens, in order, for every value
\* max_input_length takes after construction.
TruncatesToLastTokens ==
    (ForwardDone /\ Len(call.ids) > max_input_length) =>
        /\ Len(PassedIds) = max_input_length
        /\ \A i \in 1..Len(PassedIds) :
              PassedIds[i] = call.ids[Len(call.ids) - max_input_length + i]

\* C2: the tokens passed to the backbone plus max_new_tokens never exceed
\* context_len, whatever the input length and the configuration.
InputPlusGeneratedWithinContext ==
    ForwardDone => Len(PassedIds) + max_new_tokens <= context_len

\* C3: with an adapter, each update_metrics call updates each of the two
\* running loss accumulators exactly once; without an adapter, update_metrics
\* and eval_loss leave both unchanged (eval_loss never updates them itself).
LossAccumulatorsFrame ==
    [][ /\ (call'.op = "update_metrics" /\ Truthy(config_obj.adapter)) =>
              /\ eval_loss_metric'.weight = eval_loss_metric.weight + 1
              /\ eval_additional_losses_metrics'.weight =
                     eval_additional_losses_metrics.weight + 1
              /\ eval_loss_metric'.total =
                     eval_loss_metric.total + call'.loss[1]
              /\ eval_additional_losses_metrics'.total =
                     eval_additional_losses_metrics.total + call'.loss[2]
        /\ (call'.op \in {"update_metrics", "eval_loss"}
              /\ ~Truthy(config_obj.adapter)) =>
              UNCHANGED <<eval_loss_metric, eval_additional_losses_metrics>>
        /\ call'.op = "eval_loss" =>
              UNCHANGED <<eval_loss_metric, eval_additional_losses_metrics>>
      ]_vars

AccumulatorsUpdatedOnce ==
    /\ call.op = "update_metrics"
    /\ Truthy(adapter)
    /\ eval_loss_metric.weight = 1
    /\ eval_additional_losses_metrics.weight = 1
    /\ eval_loss_metric.total = 2

\* C4: realignment never removes tokens (the target handed to the feature
\* starts with the whole original target) and realigning the result again
\* against the same predictions changes nothing.
RealignNeverTruncates ==
    (MetricCall /\ TextFeature) =>
        LET t == call.targets_before
            r == _realign_target_tensor(t, call.predictions, 1)
        IN  /\ Len(r[1].data) >= Len(t[1].data)
            /\ SubSeq(r[1].data, 1, Len(t[1].data)) = t[1].data
            /\ _realign_target_tensor(r, call.predictions, 1) = r
            /\ \A i \in DOMAIN call.feature : call.feature[i].target = r[1].data

\* C5: save writes the adapter's weights under the fixed file name of the
\* given directory exactly when an adapter is attached, load replaces the
\* model by the saved one exactly when an adapter is attached, and without
\* an adapter save and load write nothing and change no field.
SaveLoadOnlyWithAdapter ==
    [][ /\ (call'.op = "save" /\ Truthy(config_obj.adapter)) =>
              /\ disk' = [disk EXCEPT
                    ![[dir |-> call'.path, file |-> "model_weights"]] =
                        [present |-> TRUE,
                         base_model_name_or_path |-> model.name,
                         weights |-> model.weights]]
              /\ UNCHANGED <<model, fields>>
        /\ (call'.op = "load" /\ call'.raised = None
              /\ Truthy(config_obj.adapter)) =>
              LET saved == disk[[dir |-> call'.path, file |-> "model_weights"]]
              IN  /\ saved.present
                  /\ model'.loaded /\ model'.peft
                  /\ model'.name = saved.base_model_name_or_path
                  /\ model'.weights = saved.weights
                  /\ UNCHANGED <<disk, fields>>
        /\ (call'.op \in {"save", "load"} /\ ~Truthy(config_obj.adapter)) =>
              /\ call'.raised = None
              /\ UNCHANGED <<disk, model, fields>>
      ]_vars

AdapterSaved ==
    /\ call.op = "save"
    /\ Truthy(adapter)
    /\ disk[WeightsPath(call.path)].present
    /\ disk[WeightsPath(call.path)].weights = model.weights

\* C6: loading what was saved from the held model gives back a model with the
\* same backbone configuration, precision, placement and adapter weights, in
\* the same mode; without an adapter save followed by load changes nothing.
SaveLoadRoundTrip ==
    (call.op = "load" /\ call.raised = None) =>
        IF Truthy(adapter)
        THEN disk[WeightsPath(call.path)] = SavedAdapter(call.model_before)
                 => model = call.model_before
        ELSE model = call.model_before

\* C7: a configuration with more than one output feature fails the
\* construction before the backbone is loaded or wrapped with an adapter.
MultiOutputFailsBeforeModelBuild ==
    /\ Len(config_obj.output_features) > 1 => pc \notin {"ready"}
    /\ pc = "failed" => (~model.loaded /\ ~model.peft)

MismatchFailsWithoutEffect ==
    (call.op = "forward" /\ call.inputs /= input_features) =>
        /\ call.raised = "AssertionError"
        /\ call.backbone = <<>>
        /\ call.decoder = <<>>
        /\ model = call.model_before
        /\ call.targets_after = call.targets_before

\* C10: for a text feature and predictions longer than the target, the
\* feature receives the original target followed by zeros only, as long as
\* the predictions, and the caller's target mapping is unchanged.
TextTargetPaddedToPredictions ==
    (MetricCall /\ TextFeature
       /\ call.predictions > Len(call.targets_before[1].data)) =>
        /\ call.feature /= <<>>
        /\ \A i \in DOMAIN call.feature :
              LET given == call.feature[i].target
                  orig == call.targets_before[1].data
              IN  /\ Len(given) = call.predictions
                  /\ SubSeq(given, 1, Len(orig)) = orig
                  /\ \A j \in (Len(orig) + 1)..Len(given) : given[j] = 0
        /\ call.targets_after = call.targets_before

TextTargetPadded ==
    /\ call.op = "update_metrics"
    /\ TextFeature
    /\ Truthy(adapter)
    /\ Len(call.targets_before[1].data) = 1
    /\ call.predictions = 2
    /\ Len(call.feature) = 2
    /\ call.feature[2].target = <<1, 0>>

====
